---- MODULE Spec2Model ----
(***************************************************************************)
(* Model of the supplier-onboarding core of ProductMasterSync:             *)
(* suggest_mapping and validate_schema of src/mdm_supplier/mapping.py, and *)
(* the test-pull and onboarding handlers that call them.                   *)
(*                                                                         *)
(* Field names and string values are sequences of one-character strings,   *)
(* so that lower(), the substring test, difflib's SequenceMatcher, float() *)
(* and strptime() can be computed as the code computes them.  Scores are   *)
(* exact rationals <<n, d>> in lowest terms; the code computes the same    *)
(* expressions in IEEE doubles, whose results differ from the rational by  *)
(* rounding only (0.5*0.7 + 1.0*0.3 is 0.6499999999999999 in the code and  *)
(* 13/20 here).                                                            *)
(***************************************************************************)
EXTENDS Integers, Sequences, FiniteSets, TLC

VARIABLES records, templates, pc, order, scored, result, sample_data, validation_results,
          handler, pull_result, mapping_template_id, calls, outcome,
          criteria, filtered,
          data_sources, uploaded_file, connector, test_pull_log, progress

vars == <<records, templates, pc, order, scored, result, sample_data, validation_results,
          handler, pull_result, mapping_template_id, calls, outcome,
          criteria, filtered,
          data_sources, uploaded_file, connector, test_pull_log, progress>>

filterVars == <<criteria, filtered>>

pullVars ==
    <<handler, pull_result, mapping_template_id, calls, outcome,
      data_sources, uploaded_file, connector, test_pull_log, progress>>

(***************************************************************************)
(* Bounds of the model.                                                    *)
(***************************************************************************)
MaxRecords == 2
MaxKeys == 1
MaxTemplates == 2
MaxFields == 2
MaxBatch == 11
MaxColumns == 2
MaxFiltered == 3
MaxLimit == 2

(***************************************************************************)
(* Rational arithmetic (Python float arithmetic, without the rounding).    *)
(***************************************************************************)
RECURSIVE GCD(_, _)
GCD(a, b) == IF b = 0 THEN a ELSE GCD(b, a % b)

Rat(n, d) == LET g == GCD(n, d) IN IF n = 0 THEN <<0, 1>> ELSE <<n \div g, d \div g>>

Zero == Rat(0, 1)
One == Rat(1, 1)

RAdd(x, y) == Rat(x[1] * y[2] + y[1] * x[2], x[2] * y[2])
RMul(x, y) == Rat(x[1] * y[1], x[2] * y[2])
RDivInt(x, k) == Rat(x[1], x[2] * k)
RGt(x, y) == x[1] * y[2] > y[1] * x[2]
RMax(x, y) == IF RGt(y, x) THEN y ELSE x

(***************************************************************************)
(* Strings.                                                                *)
(***************************************************************************)
UpperChars == <<"A","B","C","D","E","F","G","H","I","J","K","L","M",
                "N","O","P","Q","R","S","T","U","V","W","X","Y","Z">>
LowerChars == <<"a","b","c","d","e","f","g","h","i","j","k","l","m",
                "n","o","p","q","r","s","t","u","v","w","x","y","z">>

\* str.lower()
LowerChar(c) ==
    IF \E i \in DOMAIN UpperChars : UpperChars[i] = c
    THEN LowerChars[CHOOSE i \in DOMAIN UpperChars : UpperChars[i] = c]
    ELSE c

Lower(s) == [i \in DOMAIN s |-> LowerChar(s[i])]

\* a in b, for strings
IsSubstring(a, b) ==
    \E o \in 0..(Len(b) - Len(a)) : SubSeq(b, o + 1, o + Len(a)) = a

\* the length of the longest common run of a from i and b from j
RECURSIVE BlockLen(_, _, _, _)
BlockLen(a, b, i, j) ==
    IF i > Len(a) \/ j > Len(b) THEN 0
    ELSE IF a[i] # b[j] THEN 0
    ELSE 1 + BlockLen(a, b, i + 1, j + 1)

\* difflib.SequenceMatcher.find_longest_match over the whole of a and b, without
\* junk: <<i, j, k>> with a[i..i+k-1] = b[j..j+k-1] and k the largest possible;
\* of the longest blocks, the one starting earliest in a, and of those the one
\* starting earliest in b; k = 0 when a and b share no character.
RECURSIVE LongestMatch(_, _, _, _, _)
LongestMatch(a, b, i, j, best) ==
    IF i > Len(a) THEN best
    ELSE IF j > Len(b) THEN LongestMatch(a, b, i + 1, 1, best)
    ELSE IF BlockLen(a, b, i, j) > best[3]
         THEN LongestMatch(a, b, i, j + 1, <<i, j, BlockLen(a, b, i, j)>>)
         ELSE LongestMatch(a, b, i, j + 1, best)

\* SequenceMatcher.get_matching_blocks: the sum of the sizes of the blocks found
\* by matching the longest block, then the pieces to its left and to its right.
RECURSIVE Matches(_, _)
Matches(a, b) ==
    IF LongestMatch(a, b, 1, 1, <<1, 1, 0>>)[3] = 0 THEN 0
    ELSE LET m == LongestMatch(a, b, 1, 1, <<1, 1, 0>>)
         IN  m[3] + Matches(SubSeq(a, 1, m[1] - 1), SubSeq(b, 1, m[2] - 1))
                  + Matches(SubSeq(a, m[1] + m[3], Len(a)), SubSeq(b, m[2] + m[3], Len(b)))

\* SequenceMatcher(None, a, b).ratio()
Ratio(a, b) ==
    IF Len(a) + Len(b) = 0 THEN One ELSE Rat(2 * Matches(a, b), Len(a) + Len(b))

(***************************************************************************)
(* Inputs.  A record is modelled by the set of its keys (suggest_mapping   *)
(* reads nothing else of a record).  A template is [id, mappings]; its     *)
(* mappings value is absent (no key, null, or neither a list nor a string) *)
(* or a list of elements, each a source/destination pair (with an empty    *)
(* sourceField when the pair has none) or a scalar that is no mapping.     *)
(***************************************************************************)
EmptyName == <<>>
SampleNames == {EmptyName, <<"s","k","u">>, <<"s","t","o","r","e">>,
                <<"p","_","s","k","u">>, <<"q","t","y">>}
TemplateNames == {<<"s","k","u">>, <<"S","K","U">>, <<"s","t","o","c","k">>}
AllNames == SampleNames \cup TemplateNames

Pair(f) == [kind |-> "pair", sourceField |-> f]
Scalar == [kind |-> "scalar", sourceField |-> EmptyName]
Elements == {Pair(f) : f \in TemplateNames \cup {EmptyName}} \cup {Scalar}

Absent == [tag |-> "absent", items |-> <<>>]
ListOf(items) == [tag |-> "list", items |-> items]

SeqsUpTo(S, n) == UNION {[1..k -> S] : k \in 0..n}

MappingValues == {Absent} \cup {ListOf(items) : items \in SeqsUpTo(Elements, MaxFields)}

\* a mappings value that is a serialized string: the JSON text of a list of
\* elements, a text that is no JSON, or the JSON text of a value that is no list
StrOf(items) == [tag |-> "str_list", items |-> items]
StrInvalid == [tag |-> "str_invalid", items |-> <<>>]
StrOther == [tag |-> "str_other", items |-> <<>>]

SerializedValues ==
    {StrInvalid, StrOther} \cup {StrOf(items) : items \in SeqsUpTo(Elements, MaxFields)}

\* what the template store puts under the key field_mappings: pairs, decoded or
\* still serialized
PairElements == {Pair(f) : f \in TemplateNames \cup {EmptyName}}
FieldMappingValues ==
    {ListOf(items) : items \in SeqsUpTo(PairElements, MaxFields)}
        \cup {StrOf(items) : items \in SeqsUpTo(PairElements, MaxFields)}

KeySets == {K \in SUBSET SampleNames : Cardinality(K) <= MaxKeys}

\* None, and the return value (None, 0.0)
Null == [null |-> TRUE]
NoResult == [raised |-> FALSE, suggestion |-> Null, confidence |-> Zero]

(***************************************************************************)
(* suggest_mapping.                                                        *)
(***************************************************************************)
\* sample_fields: the union of the keys of the records
SampleFields(recs) == UNION {recs[i] : i \in DOMAIN recs}

\* the iteration orders of a set
OrdersOf(S) ==
    {o \in [1..Cardinality(S) -> S] : \A i, j \in DOMAIN o : o[i] = o[j] => i = j}

\* mapping.get('sourceField') raises AttributeError on an element that is no mapping
ExtractionRaises(t) ==
    /\ t.mappings.tag = "list"
    /\ \E i \in DOMAIN t.mappings.items : t.mappings.items[i].kind = "scalar"

\* json.loads raises JSONDecodeError, or mapping.get('sourceField') raises
\* AttributeError inside the try block: the template is skipped with a warning
DecodeFails(t) ==
    \/ t.mappings.tag = "str_invalid"
    \/ /\ t.mappings.tag = "str_list"
       /\ \E i \in DOMAIN t.mappings.items : t.mappings.items[i].kind = "scalar"

\* (mutant: elements without a sourceField are kept)
IsDeclaredAlways(e) == TRUE

\* if mapping.get('sourceField')
IsDeclared(e) == e.sourceField # EmptyName

RECURSIVE SourceFields(_)
SourceFields(items) ==
    IF items = <<>> THEN <<>>
    ELSE (IF IsDeclared(Head(items)) THEN <<Head(items).sourceField>> ELSE <<>>)
         \o SourceFields(Tail(items))

\* template_fields of a template whose extraction does not raise
TemplateFields(t) ==
    IF t.mappings.tag \in {"list", "str_list"} THEN SourceFields(t.mappings.items) ELSE <<>>

\* exact_matches
RECURSIVE ExactMatches(_, _)
ExactMatches(fields, sf) ==
    IF fields = <<>> THEN 0
    ELSE (IF Head(fields) \in sf THEN 1 ELSE 0) + ExactMatches(Tail(fields), sf)

\* non_exact_fields
RECURSIVE NonExactFields(_, _)
NonExactFields(fields, sf) ==
    IF fields = <<>> THEN <<>>
    ELSE (IF Head(fields) \notin sf THEN <<Head(fields)>> ELSE <<>>)
         \o NonExactFields(Tail(fields), sf)

SubstringBoost == Rat(8, 10)
FuzzyFloor == Rat(6, 10)
ExactWeight == Rat(7, 10)
FuzzyWeight == Rat(3, 10)

\* similarity of a template field and a sample field
Similarity(tf, sf) ==
    LET a == Lower(tf)
        b == Lower(sf)
        r == Ratio(a, b)
    IN  IF IsSubstring(a, b) \/ IsSubstring(b, a) THEN RMax(r, SubstringBoost) ELSE r

SimilarityTable == [tf \in AllNames, sf \in AllNames |-> Similarity(tf, sf)]

\* best_field_score of one template field, over the sample fields in iteration order
RECURSIVE BestFieldScore(_, _, _)
BestFieldScore(tf, ord, best) ==
    IF ord = <<>> THEN best
    ELSE LET s == Head(ord)
             similarity == SimilarityTable[tf, s]
         IN  IF tf = s THEN BestFieldScore(tf, Tail(ord), best)
             ELSE IF RGt(similarity, best) THEN BestFieldScore(tf, Tail(ord), similarity)
             ELSE BestFieldScore(tf, Tail(ord), best)

\* total_fuzzy_score
RECURSIVE TotalFuzzyScore(_, _)
TotalFuzzyScore(nonExact, ord) ==
    IF nonExact = <<>> THEN Zero
    ELSE RAdd(BestFieldScore(Head(nonExact), ord, Zero), TotalFuzzyScore(Tail(nonExact), ord))

\* (mutant: the total is not divided by the number of fields)
FuzzyMatchScoreTotal(nonExact, ord) == TotalFuzzyScore(nonExact, ord)

\* fuzzy_match_score
FuzzyMatchScore(nonExact, ord) ==
    IF nonExact # <<>> THEN RDivInt(TotalFuzzyScore(nonExact, ord), Len(nonExact)) ELSE Zero

\* (mutant: a field declared twice is counted once)
ExactMatchScoreDistinct(fields, sf) ==
    IF fields # <<>>
    THEN Rat(Cardinality({fields[i] : i \in DOMAIN fields} \cap sf), Len(fields))
    ELSE Zero

\* exact_match_score
ExactMatchScore(fields, sf) ==
    IF fields # <<>> THEN Rat(ExactMatches(fields, sf), Len(fields)) ELSE Zero

\* (mutant: the two weights exchanged)
CombinedScoreSwapped(exact, fuzzy) == RAdd(RMul(exact, FuzzyWeight), RMul(fuzzy, ExactWeight))

\* combined_score
CombinedScore(exact, fuzzy) == RAdd(RMul(exact, ExactWeight), RMul(fuzzy, FuzzyWeight))

\* best_match and best_match_score of one template field, over the sample fields
\* in iteration order
NoMatch == [some |-> FALSE, field |-> EmptyName, score |-> Zero]

\* (mutant: a similarity of exactly 0.6 is included)
AtLeastFloor(similarity) == ~RGt(FuzzyFloor, similarity)

\* similarity > 0.6: only good matches are included
AboveFloor(similarity) == RGt(similarity, FuzzyFloor)

RECURSIVE BestMatch(_, _, _)
BestMatch(tf, ord, best) ==
    IF ord = <<>> THEN best
    ELSE LET s == Head(ord)
             similarity == SimilarityTable[tf, s]
         IN  IF tf = s THEN BestMatch(tf, Tail(ord), best)
             ELSE IF RGt(similarity, best.score) /\ AboveFloor(similarity)
             THEN BestMatch(tf, Tail(ord), [some |-> TRUE, field |-> s, score |-> similarity])
             ELSE BestMatch(tf, Tail(ord), best)

\* if best_match: a match was found and the matched name is not the empty string
Truthy(m) == m.some /\ m.field # EmptyName

\* the "exact" entries of field_matches
RECURSIVE ExactEntries(_, _)
ExactEntries(fields, sf) ==
    IF fields = <<>> THEN <<>>
    ELSE (IF Head(fields) \in sf
          THEN <<[templateField |-> Head(fields), sampleField |-> Head(fields),
                  matchType |-> "exact", confidence |-> One]>>
          ELSE <<>>)
         \o ExactEntries(Tail(fields), sf)

\* the "fuzzy" entries of field_matches
RECURSIVE FuzzyEntries(_, _)
FuzzyEntries(nonExact, ord) ==
    IF nonExact = <<>> THEN <<>>
    ELSE LET m == BestMatch(Head(nonExact), ord, NoMatch)
         IN  (IF Truthy(m)
              THEN <<[templateField |-> Head(nonExact), sampleField |-> m.field,
                      matchType |-> "fuzzy", confidence |-> m.score]>>
              ELSE <<>>)
             \o FuzzyEntries(Tail(nonExact), ord)

\* field_matches
FieldMatches(fields, sf, ord) ==
    ExactEntries(fields, sf) \o FuzzyEntries(NonExactFields(fields, sf), ord)

\* the values one iteration of the loop over the templates computes
ScoreTemplate(t, pos, sf, ord) ==
    LET fields == TemplateFields(t)
        exact == ExactMatchScore(fields, sf)
        fuzzy == FuzzyMatchScore(NonExactFields(fields, sf), ord)
    IN  [id |-> t.id, pos |-> pos, template_fields |-> fields,
         exact_match_score |-> exact, fuzzy_match_score |-> fuzzy,
         combined_score |-> CombinedScore(exact, fuzzy)]

\* best_template
Suggestion(e, sf, ord) ==
    [template_id |-> e.id,
     field_matches |-> FieldMatches(e.template_fields, sf, ord),
     exact_match_score |-> e.exact_match_score,
     fuzzy_match_score |-> e.fuzzy_match_score,
     combined_score |-> e.combined_score]

\* (mutant: a tie replaces the best template)
BetterOrEqual(score, best) == ~RGt(best, score)

\* combined_score > best_score
Better(score, best) == RGt(score, best)

\* the loop over the templates, from position pos on; acc holds best_template,
\* best_score and the values computed for the templates scored so far
RECURSIVE ScoreLoop(_, _, _, _, _)
ScoreLoop(tmpls, pos, sf, ord, acc) ==
    IF pos > Len(tmpls) THEN acc
    ELSE LET t == tmpls[pos] IN
         IF ExtractionRaises(t) THEN [acc EXCEPT !.raised = TRUE]
         ELSE IF DecodeFails(t) THEN ScoreLoop(tmpls, pos + 1, sf, ord, acc)
         ELSE IF TemplateFields(t) = <<>> THEN ScoreLoop(tmpls, pos + 1, sf, ord, acc)
         ELSE LET e == ScoreTemplate(t, pos, sf, ord)
                  log == Append(acc.scored, e)
              IN  IF Better(e.combined_score, acc.best_score)
                  THEN ScoreLoop(tmpls, pos + 1, sf, ord,
                                 [acc EXCEPT !.best_template = Suggestion(e, sf, ord),
                                             !.best_score = e.combined_score,
                                             !.scored = log])
                  ELSE ScoreLoop(tmpls, pos + 1, sf, ord, [acc EXCEPT !.scored = log])

\* (mutant: best_score starts below 0.0)
LoopStartBelowZero ==
    [raised |-> FALSE, best_template |-> Null, best_score |-> <<-1, 1>>, scored |-> <<>>]

\* best_template = None, best_score = 0.0
LoopStart == [raised |-> FALSE, best_template |-> Null, best_score |-> Zero, scored |-> <<>>]

\* (mutant: returns early only when both inputs are empty)
EarlyReturnBoth(recs, tmpls) == recs = <<>> /\ tmpls = <<>>

\* if not sample_data or not mapping_templates
EarlyReturn(recs, tmpls) == recs = <<>> \/ tmpls = <<>>

\* what a call returns (or that it raised), the sample fields being iterated in order ord
SuggestOutcome(recs, tmpls, ord) ==
    IF EarlyReturn(recs, tmpls) THEN NoResult
    ELSE LET acc == ScoreLoop(tmpls, 1, SampleFields(recs), ord, LoopStart)
         IN  IF acc.raised THEN [raised |-> TRUE, suggestion |-> Null, confidence |-> Zero]
             ELSE [raised |-> FALSE, suggestion |-> acc.best_template,
                   confidence |-> acc.best_score]

(***************************************************************************)
(* validate_schema.  A value of a record is [type, text]: type is "null"   *)
(* for None and type(value).__name__ otherwise, text is str(value).        *)
(***************************************************************************)
NoneValue == [type |-> "null", text |-> <<"N","o","n","e">>]
Value(type, text) == [type |-> type, text |-> text]

Digits == {"0","1","2","3","4","5","6","7","8","9"}
DigitValue(c) ==
    CASE c = "0" -> 0 [] c = "1" -> 1 [] c = "2" -> 2 [] c = "3" -> 3 [] c = "4" -> 4
      [] c = "5" -> 5 [] c = "6" -> 6 [] c = "7" -> 7 [] c = "8" -> 8 [] c = "9" -> 9

AllDigits(s) == s # <<>> /\ \A i \in DOMAIN s : s[i] \in Digits

\* the position of the first "." of s, Len(s) + 1 when it has none
DotAt(s) ==
    IF \E i \in DOMAIN s : s[i] = "." THEN CHOOSE i \in DOMAIN s : s[i] = "." /\ \A j \in 1..(i - 1) : s[j] # "."
    ELSE Len(s) + 1

\* int(s) of a string does not raise ValueError: decimal digits only (the strings
\* of the model hold no sign, blank or underscore)
IsIntLiteral(s) == AllDigits(s)

\* float(s) of a string does not raise ValueError: digits with at most one point
\* and a digit on at least one side of it (the strings of the model hold no sign,
\* exponent, blank, "inf" or "nan")
IsFloatLiteral(s) ==
    LET whole == SubSeq(s, 1, DotAt(s) - 1)
        frac == SubSeq(s, DotAt(s) + 1, Len(s))
    IN  /\ \A i \in DOMAIN whole : whole[i] \in Digits
        /\ \A i \in DOMAIN frac : frac[i] \in Digits
        /\ whole \o frac # <<>>

\* (mutant: float() converts numbers only)
FloatConvertsNumbers(v) == v.type \in {"int", "float", "bool"}

\* float(sample_value) returns: a number, a bool, or a string that is a float literal
FloatConverts(v) ==
    \/ v.type \in {"int", "float", "bool"}
    \/ v.type = "str" /\ IsFloatLiteral(v.text)

\* int(sample_value) returns
IntConverts(v) ==
    \/ v.type \in {"int", "float", "bool"}
    \/ v.type = "str" /\ IsIntLiteral(v.text)

\* s without the zeros at its end
RECURSIVE StripZeros(_)
StripZeros(s) ==
    IF s # <<>> /\ s[Len(s)] = "0" THEN StripZeros(SubSeq(s, 1, Len(s) - 1)) ELSE s

\* str(float(sample_value)) for the values of the model: the whole part, a point
\* and the fraction without its trailing zeros ("0" when nothing is left)
FloatText(v) ==
    LET whole == SubSeq(v.text, 1, DotAt(v.text) - 1)
        frac == StripZeros(SubSeq(v.text, DotAt(v.text) + 1, Len(v.text)))
    IN  (IF whole = <<>> THEN <<"0">> ELSE whole) \o <<".">> \o (IF frac = <<>> THEN <<"0">> ELSE frac)

\* str(int(sample_value)) for the values of the model: a float is truncated
IntText(v) == SubSeq(v.text, 1, DotAt(v.text) - 1)

(***************************************************************************)
(* datetime.strptime for the eight formats, each a sequence of directives  *)
(* ("Y", "m", "d", "b") and literal characters.                            *)
(***************************************************************************)
date_formats ==
    << <<"Y","-","m","-","d">>, <<"d","/","m","/","Y">>, <<"m","/","d","/","Y">>,
       <<"Y","/","m","/","d">>, <<"d","-","m","-","Y">>, <<"m","-","d","-","Y">>,
       <<"b"," ","d",",", " ","Y">>, <<"d"," ","b"," ","Y">> >>

MonthNames ==
    << <<"j","a","n">>, <<"f","e","b">>, <<"m","a","r">>, <<"a","p","r">>,
       <<"m","a","y">>, <<"j","u","n">>, <<"j","u","l">>, <<"a","u","g">>,
       <<"s","e","p">>, <<"o","c","t">>, <<"n","o","v">>, <<"d","e","c">> >>

Number(s) == IF Len(s) = 1 THEN DigitValue(s[1]) ELSE 10 * DigitValue(s[1]) + DigitValue(s[2])

\* the number of characters a one- or two-digit directive with values 1..max takes
\* at position i of s (two when two digits fit), 0 when it does not match
TakeNumber(s, i, max) ==
    IF i + 1 <= Len(s) /\ s[i] \in Digits /\ s[i + 1] \in Digits
          /\ Number(SubSeq(s, i, i + 1)) \in 1..max
    THEN 2
    ELSE IF i <= Len(s) /\ s[i] \in Digits /\ Number(<<s[i]>>) \in 1..max THEN 1
    ELSE 0

\* the characters the directive or literal d takes at position i of s, 0 for no match
Take(s, i, d) ==
    CASE d = "Y" -> IF i + 3 <= Len(s) /\ AllDigits(SubSeq(s, i, i + 3)) THEN 4 ELSE 0
      [] d = "m" -> TakeNumber(s, i, 12)
      [] d = "d" -> TakeNumber(s, i, 31)
      [] d = "b" -> IF i + 2 <= Len(s)
                       /\ \E k \in DOMAIN MonthNames : Lower(SubSeq(s, i, i + 2)) = MonthNames[k]
                    THEN 3 ELSE 0
      [] OTHER -> IF i <= Len(s) /\ s[i] = d THEN 1 ELSE 0

\* strptime(s, fmt) returns: s is matched by fmt from position i and directive k on
\* (the day is not checked against the length of the month)
RECURSIVE Strptime(_, _, _, _)
Strptime(s, i, fmt, k) ==
    IF k > Len(fmt) THEN i = Len(s) + 1
    ELSE Take(s, i, fmt[k]) > 0 /\ Strptime(s, i + Take(s, i, fmt[k]), fmt, k + 1)

\* the formats that parse sample_value, in the order they are tried
ParsingFormats(v) ==
    {k \in DOMAIN date_formats : v.type = "str" /\ Strptime(v.text, 1, date_formats[k], 1)}

\* datetime.strptime(sample_value, fmt).date(): the date the text denotes when read
\* by the format
ParsedDate(v, fmt) == [text |-> v.text, read_by |-> fmt]

(***************************************************************************)
(* _infer_expected_type and _is_type_valid.                                *)
(***************************************************************************)
PriceTerms ==
    {<<"p","r","i","c","e">>, <<"c","o","s","t">>, <<"m","s","r","p">>, <<"m","a","p">>, <<"d","i","s","c","o","u","n","t">>, <<"a","m","o","u","n","t">>}
QtyTerms ==
    {<<"q","t","y">>, <<"q","u","a","n","t","i","t","y">>, <<"c","o","u","n","t">>, <<"s","t","o","c","k">>, <<"i","n","v","e","n","t","o","r","y">>, <<"u","n","i","t","s">>}
DateTerms ==
    {<<"d","a","t","e">>, <<"c","r","e","a","t","e","d">>, <<"u","p","d","a","t","e","d">>, <<"m","o","d","i","f","i","e","d">>, <<"t","i","m","e">>, <<"t","i","m","e","s","t","a","m","p">>}
BoolTerms ==
    {<<"i","s","_">>, <<"h","a","s","_">>, <<"a","c","t","i","v","e">>, <<"e","n","a","b","l","e","d">>, <<"f","l","a","g">>, <<"s","t","a","t","u","s">>, <<"a","v","a","i","l","a","b","l","e">>}

ContainsAny(name, terms) == \E term \in terms : IsSubstring(term, name)

EndsWith(name, suffix) ==
    Len(name) >= Len(suffix) /\ SubSeq(name, Len(name) - Len(suffix) + 1, Len(name)) = suffix

\* (mutant: the quantity keywords are tried before the price keywords)
InferExpectedTypeQtyFirst(field_name) ==
    LET field_lower == Lower(field_name)
    IN  IF ContainsAny(field_lower, QtyTerms) THEN "int"
        ELSE IF ContainsAny(field_lower, PriceTerms) THEN "float"
        ELSE IF ContainsAny(field_lower, DateTerms) THEN "date"
        ELSE IF ContainsAny(field_lower, BoolTerms) THEN "bool"
        ELSE IF EndsWith(field_lower, <<"i","d">>)
             THEN (IF IsSubstring(<<"u","u","i","d">>, field_lower) THEN "uuid" ELSE "str")
        ELSE "str"

\* _infer_expected_type(field_name)
InferExpectedType(field_name) ==
    LET field_lower == Lower(field_name)
    IN  IF ContainsAny(field_lower, PriceTerms) THEN "float"
        ELSE IF ContainsAny(field_lower, QtyTerms) THEN "int"
        ELSE IF ContainsAny(field_lower, DateTerms) THEN "date"
        ELSE IF ContainsAny(field_lower, BoolTerms) THEN "bool"
        ELSE IF EndsWith(field_lower, <<"_","i","d">>) \/ field_lower = <<"i","d">> \/ EndsWith(field_lower, <<"i","d">>)
             THEN (IF IsSubstring(<<"u","u","i","d">>, field_lower) THEN "uuid" ELSE "str")
        ELSE "str"

\* _is_type_valid(actual_type, expected_type)
IsTypeValid(actual_type, expected_type) ==
    \/ actual_type = expected_type
    \/ expected_type = "float" /\ actual_type \in {"int", "float"}
    \/ expected_type = "int" /\ actual_type = "int"
    \/ expected_type = "bool" /\ actual_type \in {"bool", "int"}
    \/ expected_type = "date" /\ actual_type = "str"
    \/ expected_type \in {"id", "uuid"} /\ actual_type = "str"

(***************************************************************************)
(* validate_schema.  A record is a function from its keys to values.       *)
(***************************************************************************)
\* (mutant: the field names of the first record only)
FieldNamesOfFirst(data) == DOMAIN data[1]

\* field_names: the union of the keys of the records
FieldNames(data) == UNION {DOMAIN data[i] : i \in DOMAIN data}

\* field_values: the values of the records that have the key, in batch order
RECURSIVE FieldValues(_, _)
FieldValues(data, field_name) ==
    IF data = <<>> THEN <<>>
    ELSE (IF field_name \in DOMAIN Head(data) THEN <<Head(data)[field_name]>> ELSE <<>>)
         \o FieldValues(Tail(data), field_name)

\* type_counts[value_type]
TypeCount(values, type) == Cardinality({i \in DOMAIN values : values[i].type = type})

\* the position at which value_type enters type_counts
FirstOfType(values, type) ==
    CHOOSE i \in DOMAIN values : values[i].type = type /\ \A j \in 1..(i - 1) : values[j].type # type

\* actual_type: the most common type other than null, of several most common ones
\* the one that entered type_counts first; "null" when every value is None
ActualType(values) ==
    LET non_null_types == {values[i].type : i \in DOMAIN values} \ {"null"}
    IN  IF non_null_types # {}
        THEN CHOOSE type \in non_null_types : \A other \in non_null_types \ {type} :
                \/ TypeCount(values, type) > TypeCount(values, other)
                \/ /\ TypeCount(values, type) = TypeCount(values, other)
                   /\ FirstOfType(values, type) < FirstOfType(values, other)
        ELSE "null"

\* (mutant: the last value that is not None)
SampleValueLast(values) ==
    IF \E i \in DOMAIN values : values[i] # NoneValue
    THEN values[CHOOSE i \in DOMAIN values :
                    values[i] # NoneValue /\ \A j \in (i + 1)..Len(values) : values[j] = NoneValue]
    ELSE values[1]

\* sample_value: the first value that is not None, else the first value
SampleValue(values) ==
    IF \E i \in DOMAIN values : values[i] # NoneValue
    THEN values[CHOOSE i \in DOMAIN values :
                    values[i] # NoneValue /\ \A j \in 1..(i - 1) : values[j] = NoneValue]
    ELSE values[1]

\* notes: "Expected E, found A", followed when a conversion of the sample value
\* was attempted by ". Value 'V' could [not] be converted to T[: R]" (for a date:
\* "could [not] be parsed as [a] date[: R using format F]")
Notes(expected_type, actual_type, attempt) ==
    [expected |-> expected_type, found |-> actual_type, attempt |-> attempt]

Attempt(target, sample_value, converted, text, format) ==
    [target |-> target, value |-> sample_value.text, converted |-> converted,
     result |-> text, format |-> format]

\* is_valid and notes of one field
Verdict(expected_type, actual_type, sample_value) ==
    IF IsTypeValid(actual_type, expected_type) THEN [valid |-> TRUE, notes |-> Null]
    ELSE IF expected_type = "float" /\ actual_type = "str"
    THEN IF FloatConverts(sample_value)
         THEN [valid |-> TRUE,
               notes |-> Notes(expected_type, actual_type,
                               Attempt("float", sample_value, TRUE, FloatText(sample_value), Null))]
         ELSE [valid |-> FALSE,
               notes |-> Notes(expected_type, actual_type,
                               Attempt("float", sample_value, FALSE, Null, Null))]
    ELSE IF expected_type = "int" /\ actual_type = "str"
    THEN IF IntConverts(sample_value)
         THEN [valid |-> TRUE,
               notes |-> Notes(expected_type, actual_type,
                               Attempt("int", sample_value, TRUE, IntText(sample_value), Null))]
         ELSE [valid |-> FALSE,
               notes |-> Notes(expected_type, actual_type,
                               Attempt("int", sample_value, FALSE, Null, Null))]
    ELSE IF expected_type = "date" /\ actual_type = "str"
    THEN IF ParsingFormats(sample_value) # {}
         THEN LET fmt == CHOOSE k \in ParsingFormats(sample_value) :
                             \A j \in ParsingFormats(sample_value) : k <= j
              IN  [valid |-> TRUE,
                   notes |-> Notes(expected_type, actual_type,
                                   Attempt("date", sample_value, TRUE,
                                           ParsedDate(sample_value, date_formats[fmt]),
                                           date_formats[fmt]))]
         ELSE [valid |-> FALSE,
               notes |-> Notes(expected_type, actual_type,
                               Attempt("date", sample_value, FALSE, Null, Null))]
    ELSE [valid |-> FALSE, notes |-> Notes(expected_type, actual_type, Null)]

\* the SchemaValidationResult of one field
ValidateField(data, field_name) ==
    LET field_values == FieldValues(data, field_name)
        actual_type == ActualType(field_values)
        sample_value == SampleValue(field_values)
        expected_type == InferExpectedType(field_name)
        verdict == Verdict(expected_type, actual_type, sample_value)
    IN  [field_name |-> field_name, expected_type |-> expected_type,
         actual_type |-> actual_type, valid |-> verdict.valid,
         sample_value |-> IF sample_value # NoneValue THEN sample_value.text ELSE Null,
         notes |-> verdict.notes]

\* validation_results, the field names being iterated in order ord
RECURSIVE ValidationLoop(_, _)
ValidationLoop(data, ord) ==
    IF ord = <<>> THEN <<>>
    ELSE (IF FieldValues(data, Head(ord)) = <<>> THEN <<>>
          ELSE <<ValidateField(data, Head(ord))>>)
         \o ValidationLoop(data, Tail(ord))

(***************************************************************************)
(* The state machine: one call of a function on inputs drawn by Init.    *)
(***************************************************************************)
\* validate_schema is not called
NoValidation == sample_data = <<>> /\ validation_results = <<>>

\* the record filter is not called
NoFilter == criteria = Null /\ filtered = <<>>

\* no test pull or onboarding is run
NoOutcome ==
    [returned |-> FALSE, success |-> FALSE, schema_validation |-> Null,
     mapping_suggestion |-> Null, mapping_confidence |-> Zero, error |-> "none"]
NoPull ==
    /\ handler = "none"
    /\ pull_result = Null
    /\ mapping_template_id = Null
    /\ calls = <<>>
    /\ outcome = NoOutcome
    /\ data_sources = Null
    /\ uploaded_file = FALSE
    /\ connector = "none"
    /\ test_pull_log = <<>>
    /\ progress = Null

\* suggest_mapping is not called
NoSuggestion == records = <<>> /\ templates = <<>> /\ scored = <<>> /\ result = NoResult

TemplateLists(n) ==
    {[i \in DOMAIN ms |-> [id |-> i, mappings |-> ms[i]]] : ms \in SeqsUpTo(MappingValues, n)}

Init ==
    /\ records \in SeqsUpTo(KeySets, MaxRecords)
    /\ templates \in TemplateLists(MaxTemplates)
    /\ pc = "ready"
    /\ order = <<>>
    /\ scored = <<>>
    /\ result = NoResult
    /\ NoValidation
    /\ NoPull
    /\ NoFilter

\* long batches whose last record may differ from the others, one template
InitLong ==
    /\ \E n \in 0..MaxBatch : \E K1 \in KeySets, K2 \in KeySets :
           records = [i \in 1..n |-> IF i < n THEN K1 ELSE K2]
    /\ templates \in TemplateLists(1)
    /\ pc = "ready"
    /\ order = <<>>
    /\ scored = <<>>
    /\ result = NoResult
    /\ NoValidation
    /\ NoPull
    /\ NoFilter

\* templates as the template store returns them (the pairs under field_mappings,
\* no key mappings) and templates that carry any mappings value
StoreTemplates(i) ==
    {[id |-> i, mappings |-> v, field_mappings |-> Absent] :
        v \in MappingValues \cup SerializedValues}
    \cup {[id |-> i, mappings |-> Absent, field_mappings |-> v] : v \in FieldMappingValues}

StoreTemplateLists(n) ==
    UNION {{ts \in [1..k -> UNION {StoreTemplates(i) : i \in 1..k}] :
               \A i \in 1..k : ts[i].id = i} : k \in 0..n}

\* one record, templates of every encoding
InitStore ==
    /\ records \in SeqsUpTo(KeySets, 1)
    /\ templates \in StoreTemplateLists(MaxTemplates)
    /\ pc = "ready"
    /\ order = <<>>
    /\ scored = <<>>
    /\ result = NoResult
    /\ NoValidation
    /\ NoPull
    /\ NoFilter

SuggestMapping ==
    /\ pc = "ready"
    /\ pc' = "done"
    /\ \/ /\ EarlyReturn(records, templates)
          /\ result' = SuggestOutcome(records, templates, <<>>)
          /\ UNCHANGED <<order, scored>>
       \/ /\ ~EarlyReturn(records, templates)
          /\ \E ord \in OrdersOf(SampleFields(records)) :
                /\ order' = ord
                /\ scored' = ScoreLoop(templates, 1, SampleFields(records), ord, LoopStart).scored
                /\ result' = SuggestOutcome(records, templates, ord)
    /\ UNCHANGED <<records, templates, sample_data, validation_results>>
    /\ UNCHANGED pullVars
    /\ UNCHANGED filterVars

Next == SuggestMapping

\* the batches validate_schema is called on
ValidateNames == {<<"s","k","u">>, <<"p","r","i","c","e">>, <<"q","t","y">>, <<"c","r","e","a","t","e","d">>}
Values ==
    {NoneValue, Value("str", <<"A","1">>), Value("str", <<"1","9",".","9","9">>), Value("str", <<"2","0","2","4","-","0","1","-","1","5">>), Value("int", <<"1">>)}
MoreValues == Values \cup {Value("str", <<"7">>), Value("float", <<"2",".","5">>)}
TypedRecords ==
    UNION {[K -> Values] : K \in {K \in SUBSET ValidateNames : Cardinality(K) <= MaxColumns}}

InitValidate ==
    /\ sample_data \in SeqsUpTo(TypedRecords, MaxRecords)
    /\ validation_results = <<>>
    /\ pc = "ready"
    /\ order = <<>>
    /\ NoSuggestion
    /\ NoPull
    /\ NoFilter

\* long batches of records with one key: a run of one value, then a run of another
InitValidateLong ==
    /\ \E n \in 0..MaxBatch, k \in 0..MaxBatch, f \in ValidateNames, v1 \in MoreValues, v2 \in MoreValues :
           sample_data = [i \in 1..n |-> [g \in {f} |-> IF i <= k THEN v1 ELSE v2]]
    /\ validation_results = <<>>
    /\ pc = "ready"
    /\ order = <<>>
    /\ NoSuggestion
    /\ NoPull
    /\ NoFilter

ValidateSchema ==
    /\ pc = "ready"
    /\ pc' = "done"
    /\ \/ /\ sample_data = <<>>
          /\ validation_results' = <<>>
          /\ UNCHANGED order
       \/ /\ sample_data # <<>>
          /\ \E ord \in OrdersOf(FieldNames(sample_data)) :
                /\ order' = ord
                /\ validation_results' = ValidationLoop(sample_data, ord)
    /\ UNCHANGED <<records, templates, scored, result, sample_data>>
    /\ UNCHANGED pullVars
    /\ UNCHANGED filterVars

NextValidate == ValidateSchema

\* field names made of one or two words, some of them keywords of the type inference
NameWords ==
    {<<"P","r","i","c","e">>, <<"q","t","y">>, <<"d","a","t","e">>, <<"i","s","_">>, <<"i","d">>, <<"u","u","i","d">>, <<"s","k","u">>, <<"_">>}
InferNames == NameWords \cup {a \o b : a \in NameWords, b \in NameWords}

\* batches of at most one record with one field of any of these names
InitInfer ==
    /\ sample_data \in {<<>>} \cup {<<[g \in {f} |-> v]>> : f \in InferNames,
                                        v \in {Value("str", <<"A","1">>), Value("int", <<"1">>)}}
    /\ validation_results = <<>>
    /\ pc = "ready"
    /\ order = <<>>
    /\ NoSuggestion
    /\ NoPull
    /\ NoFilter

Spec == Init /\ [][Next]_vars

SpecLong == InitLong /\ [][Next]_vars

SpecStore == InitStore /\ [][Next]_vars

SpecValidate == InitValidate /\ [][NextValidate]_vars

SpecValidateLong == InitValidateLong /\ [][NextValidate]_vars
SpecInfer == InitInfer /\ [][NextValidate]_vars

(***************************************************************************)
(* Test pull and onboarding: onboard_supplier (mdm_supplier/onboarding.py),*)
(* the test-pull endpoints of app.py and mdm_supplier/api.py, and the      *)
(* upload endpoints, each for a supplier that exists.  pc is the position  *)
(* in the handler, sample_data the handler's sample (result.test_pull_data *)
(* in onboard_supplier), templates the rows of the template store, calls   *)
(* the calls of validate_schema and suggest_mapping made so far.           *)
(***************************************************************************)
Handlers ==
    {"onboard_supplier", "app.test_pull", "api.test_pull",
     "app.upload_supplier_file", "api.upload_supplier_file"}
TestPullHandlers == {"app.test_pull", "api.test_pull"}
UploadHandlers == {"app.upload_supplier_file", "api.upload_supplier_file"}

\* the data_sources column of a supplier: for each kind of source "none" or the
\* configuration stored for it, and the form in which the driver hands the column
\* over (a mapping, or its serialization); mapping_template_id is the entry
\* data_sources['mapping_template_id']
SourceKinds == {"ftp", "api", "edi", "file_upload"}
EmptySources ==
    [form |-> "mapping", ftp |-> "none", api |-> "none", edi |-> "none", file_upload |-> "none"]
SourceConfigurations ==
    [form : {"mapping", "string"}, ftp : {"none", "config"}, api : {"none", "config"},
     edi : {"none", "config"}, file_upload : {"none", "config"}]

\* json.loads of a serialized data_sources
Decoded(ds) == [ds EXCEPT !.form = "mapping"]

\* the data_sources of the supplier get_supplier_by_id returns: a serialized column
\* is decoded
GetSupplierById(ds) == IF ds.form = "string" THEN Decoded(ds) ELSE ds

\* whether the upload handler starts from the entries of the data_sources it was
\* given: api.py takes a mapping as it is and decodes a string; app.py and
\* onboard_supplier decode a string and start from {} otherwise
ParsedEntries(h, ds) ==
    IF h = "api.upload_supplier_file" THEN TRUE ELSE ds.form = "string"

\* data_sources['file_upload'] = config, on the entries the handler starts from
WithFileUpload(h, ds) ==
    [(IF ParsedEntries(h, ds) THEN Decoded(ds) ELSE EmptySources) EXCEPT !.file_upload = "file_config"]

\* if not data_sources (the mapping has no entry)
NoSources(ds, template) ==
    /\ \A k \in SourceKinds : ds[k] = "none"
    /\ template = Null

\* OnboardingResult: supplier_id, file_path, steps_completed
NoProgress == [supplier_id |-> "none", file_uploaded |-> FALSE, steps_completed |-> 0]
total_steps == 4
\* (mutant: a step counts twice)
StepTwice(p) == [p EXCEPT !.steps_completed = @ + 2]

\* result.steps_completed += 1
Step(p) == [p EXCEPT !.steps_completed = @ + 1]

\* to_dict()['status']
Status(p) ==
    IF p.steps_completed = total_steps THEN "success"
    ELSE IF p.steps_completed > 0 THEN "partial_success" ELSE "failed"

\* what pull_sample_data of a connector returns: a failure without sample_data, or
\* success with the records read (possibly none)
PullBatches ==
    {<<>>, <<[f \in {<<"s","k","u">>} |-> Value("str", <<"A","1">>)]>>,
     <<[f \in {<<"s","k","u">>} |-> Value("str", <<"A","1">>)], [f \in {<<"q","t","y">>} |-> Value("int", <<"1">>)]>>}
PullFailure == [success |-> FALSE, has_sample_data |-> FALSE, sample_data |-> <<>>]
PullSuccess(data) == [success |-> TRUE, has_sample_data |-> TRUE, sample_data |-> data]
PullResults == {PullFailure} \cup {PullSuccess(data) : data \in PullBatches}

\* pull_result.get('sample_data', [])
SampleOf(p) == IF p.has_sample_data THEN p.sample_data ELSE <<>>

\* the rows get_mapping_templates_by_source_type returns: the pairs are under
\* field_mappings, a row has no key mappings
StoredRows ==
    {<<>>} \cup {<<[id |-> 1, mappings |-> Absent, field_mappings |-> v]>> : v \in FieldMappingValues}

\* the sub-sequences of a batch
RECURSIVE SubBatches(_)
SubBatches(data) ==
    IF data = <<>> THEN {<<>>}
    ELSE SubBatches(Tail(data)) \cup {<<Head(data)>> \o d : d \in SubBatches(Tail(data))}

\* the records as suggest_mapping reads them: their keys
KeysOf(data) == [i \in DOMAIN data |-> DOMAIN data[i]]

\* data_sources['mapping_template_id'], when the supplier has one
TemplateId(id) == [template_id |-> id]

\* confidence > 0.7
GoodConfidence == Rat(7, 10)

\* result.schema_validation when validate_schema has returned
Validation(results) == [results |-> results]

\* the handler returns the result it has built
Return(o) == [o EXCEPT !.returned = TRUE]

\* the handler's error result (app.py, api.py), or result.add_error(step, ...)
Failed(o, step) == [o EXCEPT !.error = step]

\* the TestPullResult an endpoint builds in its except clause
ErrorResult == Failed(NoOutcome, "exception")

\* (mutant: every row is logged as a failure)
LoggedAsFailure(log, success) == Append(log, [success |-> FALSE])

\* the rows of mdm_supplier_test_pulls after log_test_pull has written one
Logged(log, success) == Append(log, [success |-> success])

\* except Exception in a test-pull endpoint: the error result is logged and
\* returned; when log_test_pull raises here the exception leaves the endpoint
ReturnError ==
    \/ /\ test_pull_log' = Logged(test_pull_log, FALSE)
       /\ outcome' = Return(ErrorResult)
       /\ pc' = "returned"
    \/ /\ UNCHANGED test_pull_log
       /\ outcome' = Failed(NoOutcome, "raised")
       /\ pc' = "raised"

\* a test-pull endpoint logs the result o it has built and returns it; when
\* log_test_pull raises, no row is written and the except clause takes over
LogAndReturn(o) ==
    \/ /\ test_pull_log' = Logged(test_pull_log, o.success)
       /\ outcome' = Return(o)
       /\ pc' = "returned"
    \/ ReturnError

\* (mutant: an early return writes a log row)
ReturnEarlyLogged(step) ==
    /\ pc' = "returned"
    /\ outcome' = Return(Failed(outcome, step))
    /\ test_pull_log' = Append(test_pull_log, [success |-> FALSE])

\* onboard_supplier returns early with an error added
ReturnEarly(step) ==
    /\ pc' = "returned"
    /\ outcome' = Return(Failed(outcome, step))
    /\ UNCHANGED test_pull_log

\* where a handler starts
StartOf(h) ==
    IF h = "onboard_supplier" THEN "create"
    ELSE IF h \in UploadHandlers THEN "upload" ELSE "select"

InitPull ==
    /\ handler \in Handlers
    /\ pc = StartOf(handler)
    /\ data_sources \in SourceConfigurations
    /\ uploaded_file \in BOOLEAN
    /\ connector = "none"
    /\ test_pull_log = <<>>
    /\ progress = NoProgress
    /\ pull_result = Null
    /\ mapping_template_id \in {Null, TemplateId(1)}
    /\ calls = <<>>
    /\ outcome = NoOutcome
    /\ templates \in StoredRows
    /\ sample_data = <<>>
    /\ validation_results = <<>>
    /\ records = <<>>
    /\ order = <<>>
    /\ scored = <<>>
    /\ result = NoResult
    /\ NoFilter

\* step 1 of onboard_supplier: SupplierRepository.create_supplier(supplier_data);
\* data_sources is the data_sources of supplier_data, stored with the supplier
CreateSupplier ==
    /\ pc = "create"
    /\ \/ /\ pc' = "upload"
          /\ progress' = Step([progress EXCEPT !.supplier_id = "created"])
          /\ UNCHANGED <<outcome, test_pull_log>>
       \/ \* nothing is created, or create_supplier raises
          /\ ReturnEarly("create_supplier")
          /\ UNCHANGED progress
    /\ UNCHANGED <<records, templates, order, scored, result, sample_data, validation_results,
                   handler, pull_result, mapping_template_id, calls,
                   data_sources, uploaded_file, connector>>
    /\ UNCHANGED filterVars

\* the files a handler can be given: none (onboard_supplier only), or one whose
\* extension is or is not among the allowed extensions
Files(h) == IF h = "onboard_supplier" THEN {"none", "allowed", "disallowed"}
            ELSE {"allowed", "disallowed"}

\* the upload endpoints, and step 2 of onboard_supplier
UploadFile ==
    /\ pc = "upload"
    /\ \E file \in Files(handler) :
          \/ \* no file: the step is skipped
             /\ file = "none"
             /\ pc' = "select"
             /\ progress' = Step(progress)
             /\ UNCHANGED <<data_sources, mapping_template_id, uploaded_file, outcome>>
          \/ \* the extension is not allowed
             /\ file = "disallowed"
             /\ IF handler = "onboard_supplier"
                THEN /\ pc' = "returned"
                     /\ outcome' = Return(Failed(outcome, "file_upload"))
                ELSE /\ pc' = "raised"
                     /\ outcome' = Failed(outcome, "raised")
             /\ UNCHANGED <<data_sources, mapping_template_id, uploaded_file, progress>>
          \/ \* the file is saved and data_sources['file_upload'] is set
             /\ file = "allowed"
             /\ uploaded_file' = TRUE
             /\ data_sources' = WithFileUpload(handler, GetSupplierById(data_sources))
             /\ mapping_template_id' =
                    IF ParsedEntries(handler, GetSupplierById(data_sources))
                    THEN mapping_template_id ELSE Null
             /\ IF handler = "onboard_supplier"
                THEN /\ pc' = "select"
                     /\ progress' = Step([progress EXCEPT !.file_uploaded = TRUE])
                     /\ UNCHANGED outcome
                ELSE /\ pc' = "returned"
                     /\ outcome' = Return([outcome EXCEPT !.success = TRUE])
                     /\ UNCHANGED progress
          \/ \* saving the file or updating the supplier raises
             /\ file = "allowed"
             /\ uploaded_file' \in {uploaded_file, TRUE}
             /\ IF handler = "onboard_supplier"
                THEN /\ pc' = "select"
                     /\ outcome' = Failed(outcome, "file_upload")
                ELSE /\ pc' = "raised"
                     /\ outcome' = Failed(outcome, "raised")
             /\ UNCHANGED <<data_sources, mapping_template_id, progress>>
    /\ UNCHANGED <<records, templates, order, scored, result, sample_data, validation_results,
                   handler, pull_result, calls, connector, test_pull_log>>
    /\ UNCHANGED filterVars

\* a file of the supplier is at hand: the one uploaded in step 2, or one found in
\* the upload directory
FileAtHand == progress.file_uploaded \/ uploaded_file

\* the source a handler chooses among the configured ones, "none" when it finds none:
\* api.py tries ftp, api, edi, file_upload in turn while it has no connector; app.py
\* and onboard_supplier take the first configured of their chain
ChosenSource(h, ds) ==
    IF ds.ftp # "none" THEN "ftp"
    ELSE IF ds.api # "none" THEN "api"
    ELSE IF h = "api.test_pull"
         THEN (IF ds.edi # "none" THEN "edi"
               ELSE IF ds.file_upload # "none" THEN "file_upload" ELSE "none")
    ELSE IF h = "app.test_pull"
         THEN (IF ds.file_upload # "none" THEN "file_upload" ELSE "none")
    ELSE IF ds.file_upload # "none" THEN "file_upload"
    ELSE IF ds.edi # "none" THEN "edi" ELSE "none"

\* the choice of the data source and create_connector
SelectSource ==
    /\ pc = "select"
    /\ IF handler \in TestPullHandlers
       THEN IF NoSources(GetSupplierById(data_sources), mapping_template_id)
            THEN LogAndReturn(outcome) /\ UNCHANGED connector
            ELSE CASE ChosenSource(handler, GetSupplierById(data_sources)) = "none" ->
                          LogAndReturn(outcome) /\ UNCHANGED connector
                   [] ChosenSource(handler, GetSupplierById(data_sources)) = "edi" ->
                          \* create_connector raises ValueError
                          ReturnError /\ UNCHANGED connector
                   [] ChosenSource(handler, GetSupplierById(data_sources)) = "file_upload" ->
                          IF uploaded_file
                          THEN /\ connector' = "file_upload"
                               /\ pc' = "connect"
                               /\ UNCHANGED <<outcome, test_pull_log>>
                          ELSE LogAndReturn(outcome) /\ UNCHANGED connector
                   [] OTHER ->
                          /\ connector' = ChosenSource(handler, GetSupplierById(data_sources))
                          /\ pc' = "connect"
                          /\ UNCHANGED <<outcome, test_pull_log>>
       ELSE CASE ChosenSource(handler, GetSupplierById(data_sources)) = "none" ->
                     ReturnEarly("test_pull") /\ UNCHANGED connector
              [] ChosenSource(handler, GetSupplierById(data_sources)) = "edi" ->
                     \* create_connector raises ValueError: step 3 is given up
                     /\ pc' = "validate"
                     /\ outcome' = Failed(outcome, "test_pull")
                     /\ UNCHANGED <<connector, test_pull_log>>
              [] ChosenSource(handler, GetSupplierById(data_sources)) = "file_upload"
                    /\ ~FileAtHand ->
                     ReturnEarly("test_pull") /\ UNCHANGED connector
              [] OTHER ->
                     /\ connector' = ChosenSource(handler, GetSupplierById(data_sources))
                     /\ pc' = "connect"
                     /\ UNCHANGED <<outcome, test_pull_log>>
    /\ UNCHANGED <<records, templates, order, scored, result, sample_data, validation_results,
                   handler, pull_result, mapping_template_id, calls,
                   data_sources, uploaded_file, progress>>
    /\ UNCHANGED filterVars

\* whether the connector was given the path of the file: onboard_supplier puts it
\* into config, where FileUploadConnector does not look
HasFilePath == ~(handler = "onboard_supplier" /\ connector = "file_upload")

\* connector.test_connection()
TestConnection ==
    /\ pc = "connect"
    /\ \/ /\ HasFilePath
          /\ pc' = "pull"
          /\ UNCHANGED <<outcome, test_pull_log>>
       \/ \* the connection test fails: the handler returns
          IF handler = "onboard_supplier"
          THEN ReturnEarly("test_pull")
          ELSE LogAndReturn(Failed(outcome, "test_pull"))
       \/ \* an exception: onboard_supplier goes on with step 4, the endpoints
          \* return an error result
          IF handler = "onboard_supplier"
          THEN /\ pc' = "validate"
               /\ outcome' = Failed(outcome, "test_pull")
               /\ UNCHANGED test_pull_log
          ELSE ReturnError
    /\ UNCHANGED <<records, templates, order, scored, result, sample_data, validation_results,
                   handler, pull_result, mapping_template_id, calls,
                   data_sources, uploaded_file, connector, progress>>
    /\ UNCHANGED filterVars

\* (mutant: a sample is taken to hold records even when it is empty)
NonEmptyAlways(data) == TRUE

\* if sample_data, if result.test_pull_data
NonEmpty(data) == data # <<>>

\* connector.pull_sample_data(limit)
PullSampleData ==
    /\ pc = "pull"
    /\ \E p \in PullResults :
          /\ pull_result' = p
          /\ CASE handler = "onboard_supplier" ->
                    IF ~p.success
                    THEN /\ ReturnEarly("test_pull")
                         /\ UNCHANGED <<sample_data, progress>>
                    ELSE /\ pc' = "validate"
                         /\ outcome' = [outcome EXCEPT !.success = TRUE]
                         /\ sample_data' = SampleOf(p)
                         /\ progress' = Step(progress)
                         /\ UNCHANGED test_pull_log
               [] handler = "app.test_pull" ->
                    /\ pc' = "filter"
                    /\ sample_data' = SampleOf(p)
                    /\ outcome' = [outcome EXCEPT !.success = p.success]
                    /\ UNCHANGED <<progress, test_pull_log>>
               [] handler = "api.test_pull" ->
                    /\ sample_data' = SampleOf(p)
                    /\ LogAndReturn([outcome EXCEPT !.success = p.success])
                    /\ UNCHANGED progress
    /\ UNCHANGED <<records, templates, order, scored, result, validation_results,
                   handler, mapping_template_id, calls,
                   data_sources, uploaded_file, connector>>
    /\ UNCHANGED filterVars

\* app.py: apply_filters(sample_data, filter_dict), imported from mdm_supplier.mapping.
\* That module defines no apply_filters, so the import raises ImportError and the
\* endpoint returns its error result; with a module that provides it the sample
\* becomes some sub-sequence of itself.
ApplyFilters ==
    /\ pc = "filter"
    /\ IF NonEmpty(sample_data) /\ pull_result.success
       THEN \/ /\ ReturnError
               /\ UNCHANGED sample_data
            \/ /\ pc' = "validate"
               /\ sample_data' \in SubBatches(sample_data)
               /\ UNCHANGED <<outcome, test_pull_log>>
       ELSE /\ pc' = "validate"
            /\ UNCHANGED <<sample_data, outcome, test_pull_log>>
    /\ UNCHANGED <<records, templates, order, scored, result, validation_results,
                   handler, pull_result, mapping_template_id, calls,
                   data_sources, uploaded_file, connector, progress>>
    /\ UNCHANGED filterVars

\* the condition under which the handler validates the schema
ValidationGuard ==
    IF handler = "onboard_supplier" THEN NonEmpty(sample_data)
    ELSE NonEmpty(sample_data) /\ pull_result.success

\* validate_schema(...).  app.py passes a second argument, expected_schema, which
\* validate_schema of mdm_supplier/mapping.py does not take: the call raises
\* TypeError there, and returns the results with a validate_schema that takes it.
ValidateStep ==
    /\ pc = "validate"
    /\ IF ValidationGuard
       THEN /\ calls' = Append(calls, "validate_schema")
            /\ \/ \E ord \in OrdersOf(FieldNames(sample_data)) :
                     /\ outcome' = [outcome EXCEPT
                                       !.schema_validation =
                                           Validation(ValidationLoop(sample_data, ord))]
                     /\ pc' = "suggest"
                     /\ UNCHANGED test_pull_log
               \/ /\ handler = "app.test_pull"
                  /\ ReturnError
       ELSE /\ pc' = "suggest"
            /\ UNCHANGED <<calls, outcome, test_pull_log>>
    /\ UNCHANGED <<records, templates, order, scored, result, sample_data, validation_results,
                   handler, pull_result, mapping_template_id,
                   data_sources, uploaded_file, connector, progress>>
    /\ UNCHANGED filterVars

\* the condition under which the handler asks for a suggestion
SuggestionGuard ==
    IF handler = "onboard_supplier" THEN NonEmpty(sample_data)
    ELSE NonEmpty(sample_data) /\ pull_result.success /\ mapping_template_id = Null

\* the result after suggest_mapping returned s
AfterSuggestion(o, s) ==
    [o EXCEPT !.mapping_suggestion = s.suggestion, !.mapping_confidence = s.confidence]

\* data_sources['mapping_template_id'] after the suggestion: onboard_supplier
\* assigns the suggested template when the confidence is good
AssignedTemplate(h, current, s) ==
    IF h = "onboard_supplier" /\ ~s.raised /\ RGt(s.confidence, GoodConfidence)
          /\ s.suggestion # Null
    THEN TemplateId(s.suggestion.template_id)
    ELSE current

\* the end of step 4 for a suggestion s: onboard_supplier records the suggestion
\* and counts the step, or adds an error when suggest_mapping raised, and goes on
\* to its log; app.py logs and returns its result, or its error result
AfterStep4(h, o, p, s) ==
    IF h = "onboard_supplier"
    THEN /\ pc' = "log"
         /\ outcome' = IF s.raised THEN Failed(o, "schema_validation") ELSE AfterSuggestion(o, s)
         /\ progress' = IF s.raised THEN p ELSE Step(p)
         /\ UNCHANGED test_pull_log
    ELSE /\ IF s.raised THEN ReturnError ELSE LogAndReturn(AfterSuggestion(o, s))
         /\ UNCHANGED progress

\* get_mapping_templates_by_source_type and suggest_mapping(sample, templates)
SuggestStep ==
    /\ pc = "suggest"
    /\ IF SuggestionGuard
       THEN /\ calls' = Append(calls, "suggest_mapping")
            /\ \E ord \in OrdersOf(SampleFields(KeysOf(sample_data))) :
                  /\ AfterStep4(handler, outcome, progress,
                                SuggestOutcome(KeysOf(sample_data), templates, ord))
                  /\ mapping_template_id' = AssignedTemplate(handler, mapping_template_id,
                                    SuggestOutcome(KeysOf(sample_data), templates, ord))
       ELSE /\ IF handler = "onboard_supplier"
               THEN /\ pc' = "log"
                    /\ progress' = Step(progress)
                    /\ UNCHANGED <<outcome, test_pull_log>>
               ELSE /\ LogAndReturn(outcome)
                    /\ UNCHANGED progress
            /\ UNCHANGED <<calls, mapping_template_id>>
    /\ UNCHANGED <<records, templates, order, scored, result, sample_data, validation_results,
                   handler, pull_result, data_sources, uploaded_file, connector>>
    /\ UNCHANGED filterVars

\* the end of onboard_supplier: log_test_pull(log_data), then return result; when
\* the call raises, the outer except clause adds an error
LogTestPull ==
    /\ pc = "log"
    /\ pc' = "returned"
    /\ \/ /\ test_pull_log' = Logged(test_pull_log, outcome.success)
          /\ outcome' = Return(outcome)
       \/ /\ UNCHANGED test_pull_log
          /\ outcome' = Return(Failed(outcome, "onboarding"))
    /\ UNCHANGED <<records, templates, order, scored, result, sample_data, validation_results,
                   handler, pull_result, mapping_template_id, calls,
                   data_sources, uploaded_file, connector, progress>>
    /\ UNCHANGED filterVars

NextPull ==
    \/ CreateSupplier \/ UploadFile \/ SelectSource \/ TestConnection \/ PullSampleData
    \/ ApplyFilters \/ ValidateStep \/ SuggestStep \/ LogTestPull

SpecPull == InitPull /\ [][NextPull]_vars

(***************************************************************************)
(* The record filter, apply_filters(sample_data, filter_dict), which       *)
(* app.py imports from mdm_supplier.mapping.  The function is not in the   *)
(* sources at hand; it is modelled from section 4.4 of the specification.  *)
(* A criterion is [given, value]; field_contains is the sequence of its    *)
(* (field, substring) pairs.                                               *)
(***************************************************************************)
Given(v) == [given |-> TRUE, value |-> v]
NotGiven == [given |-> FALSE, value |-> <<>>]
NoLimit == [given |-> FALSE, value |-> 0]

CategoryField == <<"c","a","t","e","g","o","r","y">>
IdentifierFields == {<<"s","k","u">>, <<"p","r","o","d","u","c","t","_","i","d">>, <<"i","t","e","m","_","n","u","m","b","e","r">>, <<"p","a","r","t","_","n","u","m","b","e","r">>}

\* str.startswith
StartsWith(text, prefix) ==
    Len(text) >= Len(prefix) /\ SubSeq(text, 1, Len(prefix)) = prefix

\* category: the records whose category field equals the value
ByCategory(recs, c) ==
    IF c.given
    THEN SelectSeq(recs, LAMBDA r : CategoryField \in DOMAIN r /\ r[CategoryField].text = c.value)
    ELSE recs

\* sku_prefix: the records one of whose identifier fields starts with the prefix
BySkuPrefix(recs, c) ==
    IF c.given
    THEN SelectSeq(recs, LAMBDA r : \E f \in IdentifierFields \cap DOMAIN r :
                                        StartsWith(r[f].text, c.value))
    ELSE recs

\* field_contains: for each pair in turn, the records that have the field and whose
\* text contains the substring, whatever the case
RECURSIVE ByFieldContains(_, _)
ByFieldContains(recs, pairs) ==
    IF pairs = <<>> THEN recs
    ELSE ByFieldContains(
             SelectSeq(recs, LAMBDA r : /\ Head(pairs)[1] \in DOMAIN r
                                        /\ IsSubstring(Lower(Head(pairs)[2]),
                                                       Lower(r[Head(pairs)[1]].text))),
             Tail(pairs))

\* limit: at most that many records, from the start
ByLimit(recs, c) ==
    IF c.given /\ c.value < Len(recs) THEN SubSeq(recs, 1, c.value) ELSE recs

\* (mutant: the limit is applied first, before the predicates)
FilterRecordsLimitFirst(recs, c) ==
    ByFieldContains(BySkuPrefix(ByCategory(ByLimit(recs, c.limit), c.category), c.sku_prefix),
                    c.field_contains)

\* apply_filters(sample_data, filter_dict)
FilterRecords(recs, c) ==
    ByLimit(ByFieldContains(BySkuPrefix(ByCategory(recs, c.category), c.sku_prefix),
                            c.field_contains),
            c.limit)

\* the batches and criteria the filter is called on
FilterRecordSet ==
    {[f \in {<<"s","k","u">>} |-> Value("str", <<"A","1">>)], [f \in {<<"s","k","u">>} |-> Value("str", <<"A","2">>)],
     [f \in {<<"s","k","u">>} |-> Value("str", <<"b","1">>)], [f \in {CategoryField} |-> Value("str", <<"x">>)],
     (<<"s","k","u">> :> Value("str", <<"A","1">>)) @@ (CategoryField :> Value("str", <<"x">>)),
     (<<"s","k","u">> :> Value("str", <<"b","1">>)) @@ (CategoryField :> Value("str", <<"x">>))}
CriteriaSet ==
    [category : {NotGiven, Given(<<"x">>)},
     sku_prefix : {NotGiven, Given(<<"A">>)},
     field_contains : {<<>>, << <<<<"s","k","u">>, <<"a">>>> >>, << <<<<"s","k","u">>, <<"a">>>>, <<CategoryField, <<"x">>>> >>},
     limit : {NoLimit} \cup {Given(n) : n \in 0..MaxLimit}]

InitFilter ==
    /\ sample_data \in SeqsUpTo(FilterRecordSet, MaxFiltered)
    /\ criteria \in CriteriaSet
    /\ filtered = <<>>
    /\ validation_results = <<>>
    /\ pc = "ready"
    /\ order = <<>>
    /\ NoSuggestion
    /\ NoPull

Filter ==
    /\ pc = "ready"
    /\ pc' = "done"
    /\ filtered' = FilterRecords(sample_data, criteria)
    /\ UNCHANGED <<records, templates, order, scored, result, sample_data, validation_results,
                   criteria>>
    /\ UNCHANGED pullVars

NextFilter == Filter

SpecFilter == InitFilter /\ [][NextFilter]_vars

(***************************************************************************)
(* Properties.                                                             *)
(***************************************************************************)
Returned == pc = "done" /\ ~result.raised
Suggested == Returned /\ result.suggestion # Null
Observed == SampleFields(records)
InUnit(x) == x[2] > 0 /\ 0 <= x[1] /\ x[1] <= x[2]
Range(seq) == {seq[i] : i \in DOMAIN seq}
REq(x, y) == x[1] * y[2] = y[1] * x[2]

\* C1: with an empty record batch or an empty template list the call returns
\* (null, 0.0) and does not raise, whatever the other argument is.
C1_EmptyInputsReturnNull ==
    (pc = "done" /\ (records = <<>> \/ templates = <<>>))
        => /\ ~result.raised
           /\ result.suggestion = Null
           /\ result.confidence = <<0, 1>>

\* an empty batch with a template whose extraction would raise
C1_Witness ==
    /\ pc = "done"
    /\ records = <<>>
    /\ \E i \in DOMAIN templates : ExtractionRaises(templates[i])

\* C2: for every scored template, combined = 0.7 * exact + 0.3 * fuzzy, and
\* exact = (number of declared source fields equal to an observed field name)
\* / (number of declared source fields).
C2_CombinedIsWeightedSum ==
    pc = "done" =>
        \A k \in DOMAIN scored :
            LET e == scored[k]
                n == Len(e.template_fields)
                hits == Cardinality({i \in 1..n : e.template_fields[i] \in Observed})
                x == e.exact_match_score
                f == e.fuzzy_match_score
                c == e.combined_score
            IN  /\ n > 0
                /\ x[1] * n = hits * x[2]
                /\ 10 * c[1] * x[2] * f[2] = c[2] * (7 * x[1] * f[2] + 3 * f[1] * x[2])

\* a scored template with one field matched exactly and one matched by similarity
C2_Witness ==
    /\ pc = "done"
    /\ \E k \in DOMAIN scored :
          /\ scored[k].exact_match_score = <<1, 2>>
          /\ RGt(scored[k].fuzzy_match_score, Zero)
          /\ scored[k].fuzzy_match_score # One

\* C3: the returned confidence, the suggestion's three scores and the confidence
\* of every field_matches entry lie in [0.0, 1.0].
C3_ScoresInUnitInterval ==
    Returned =>
        /\ InUnit(result.confidence)
        /\ result.suggestion # Null =>
              /\ InUnit(result.suggestion.exact_match_score)
              /\ InUnit(result.suggestion.fuzzy_match_score)
              /\ InUnit(result.suggestion.combined_score)
              /\ \A m \in Range(result.suggestion.field_matches) : InUnit(m.confidence)

\* a suggestion whose two declared fields are both matched by similarity 1.0
C3_Witness ==
    /\ Suggested
    /\ result.suggestion.fuzzy_match_score = One
    /\ Len(result.suggestion.field_matches) = 2
    /\ \A m \in Range(result.suggestion.field_matches) : m.matchType = "fuzzy"

\* a template that declares no source field: no mappings list, or a list
\* holding only pairs without a sourceField
ZeroSourceFields(t) ==
    \/ t.mappings.tag = "absent"
    \/ /\ t.mappings.tag = "list"
       /\ \A i \in DOMAIN t.mappings.items :
             /\ t.mappings.items[i].kind = "pair"
             /\ t.mappings.items[i].sourceField = EmptyName

RECURSIVE WithoutZeroSourceFields(_)
WithoutZeroSourceFields(tmpls) ==
    IF tmpls = <<>> THEN <<>>
    ELSE (IF ZeroSourceFields(Head(tmpls)) THEN <<>> ELSE <<Head(tmpls)>>)
         \o WithoutZeroSourceFields(Tail(tmpls))

\* C4: a template with zero declared source fields is never returned, and the
\* outcome is the outcome of the call on the list with every such template removed.
C4_ZeroFieldTemplatesIgnored ==
    pc = "done" =>
        /\ result.suggestion # Null =>
              \A i \in DOMAIN templates :
                  templates[i].id = result.suggestion.template_id
                      => ~ZeroSourceFields(templates[i])
        /\ result = SuggestOutcome(records, WithoutZeroSourceFields(templates), order)

\* a suggestion is returned for the second template, the first being a list of
\* pairs without sourceField while the batch has the empty string as a key
C4_Witness ==
    /\ Suggested
    /\ Len(templates) = 2
    /\ templates[1].mappings.tag = "list"
    /\ templates[1].mappings.items # <<>>
    /\ ZeroSourceFields(templates[1])
    /\ EmptyName \in Observed
    /\ result.suggestion.template_id = templates[2].id

\* position k of the log of scored templates holds the highest combined score,
\* and is the first position that holds it
FirstHighest(k) ==
    \A j \in DOMAIN scored :
        /\ ~RGt(scored[j].combined_score, scored[k].combined_score)
        /\ j < k => RGt(scored[k].combined_score, scored[j].combined_score)

ReturnsScored(k) ==
    /\ result.suggestion # Null
    /\ result.suggestion.template_id = scored[k].id
    /\ result.suggestion.combined_score = scored[k].combined_score
    /\ result.confidence = scored[k].combined_score

\* C5 as stated: whenever some template was scored, the first of the templates
\* with the highest combined score is returned.
C5_Original ==
    (Returned /\ scored # <<>>) =>
        \E k \in DOMAIN scored : FirstHighest(k) /\ ReturnsScored(k)

\* C5 amended: the first of the scored templates with the highest combined score
\* is returned when that score is above 0, and null is returned when it is not.
C5_FirstHighestAboveZero ==
    Returned =>
        IF \E k \in DOMAIN scored : RGt(scored[k].combined_score, Zero)
        THEN \E k \in DOMAIN scored : FirstHighest(k) /\ ReturnsScored(k)
        ELSE result.suggestion = Null /\ result.confidence = Zero

\* two scored templates tie on a combined score above 0 and the first is returned
C5_Witness ==
    /\ Suggested
    /\ Len(scored) = 2
    /\ scored[1].combined_score = scored[2].combined_score
    /\ scored[1].template_fields # scored[2].template_fields
    /\ result.suggestion.template_id = scored[1].id

AllExact(e) == \A i \in DOMAIN e.template_fields : e.template_fields[i] \in Observed
NoneExact(e) == \A i \in DOMAIN e.template_fields : e.template_fields[i] \notin Observed

\* C6: a template all of whose declared source fields are observed has combined
\* score 1.0, and is returned when every other scored template has no declared
\* field that is observed.
C6_AllExactScoresOne ==
    Returned =>
        \A k \in DOMAIN scored :
            AllExact(scored[k]) =>
                /\ scored[k].combined_score = One
                /\ (\A j \in DOMAIN scored : j # k => NoneExact(scored[j]))
                      => /\ result.suggestion # Null
                         /\ result.suggestion.template_id = scored[k].id

\* the best similarity of a template field to an observed field other than
\* itself, counted as 0 unless it is above the 0.6 floor
FloorBest(tf) ==
    LET above == {x \in {SimilarityTable[tf, s] : s \in Observed \ {tf}} : RGt(x, <<3, 5>>)}
    IN  IF above = {} THEN Zero ELSE CHOOSE x \in above : \A y \in above : ~RGt(y, x)

RECURSIVE FloorTotal(_)
FloorTotal(fields) ==
    IF fields = <<>> THEN Zero ELSE RAdd(FloorBest(Head(fields)), FloorTotal(Tail(fields)))

Unobserved(fields) == SelectSeq(fields, LAMBDA f : f \notin Observed)

\* C7: in the fuzzy-match score of a scored template, a declared field that is not
\* observed and whose best similarity does not exceed 0.6 contributes 0.
C7_BelowFloorContributesZero ==
    pc = "done" =>
        \A k \in DOMAIN scored :
            LET ne == Unobserved(scored[k].template_fields)
            IN  ne # <<>> =>
                    REq(scored[k].fuzzy_match_score, RDivInt(FloorTotal(ne), Len(ne)))

\* the best similarity of a template field to the observed fields in S
BestOver(tf, S) ==
    LET sims == {SimilarityTable[tf, s] : s \in S} \cup {Zero}
    IN  CHOOSE x \in sims : \A y \in sims : ~RGt(y, x)

RECURSIVE TotalOver(_, _)
TotalOver(fields, S) ==
    IF fields = <<>> THEN Zero ELSE RAdd(BestOver(Head(fields), S), TotalOver(Tail(fields), S))

\* C8: the fuzzy match of a declared field that is not observed is never an
\* observed field that another declared field of the same template matches
\* exactly, neither in field_matches nor in the fuzzy-match score.
C8_ExactlyMatchedNotReused ==
    pc = "done" =>
        /\ \A k \in DOMAIN scored :
              LET ne == Unobserved(scored[k].template_fields)
                  free == Observed \ Range(scored[k].template_fields)
              IN  ne # <<>> =>
                      REq(scored[k].fuzzy_match_score, RDivInt(TotalOver(ne, free), Len(ne)))
        /\ Suggested =>
              \A m \in Range(result.suggestion.field_matches) :
                  m.matchType = "fuzzy" =>
                      \A x \in Range(result.suggestion.field_matches) :
                          x.matchType = "exact" => x.sampleField # m.sampleField

Count(seq, P(_)) == Cardinality({i \in DOMAIN seq : P(seq[i])})

\* C9: field_matches has at most one entry per declared source field of the
\* returned template: an "exact" entry with confidence 1.0 and sampleField equal
\* to the field, for each declared field that is observed; a "fuzzy" entry carrying
\* the similarity to an observed field, only when that similarity is above 0.6;
\* and no entry for a declared field that no observed field matches above 0.6.
C9_FieldMatchesPerDeclaredField ==
    Suggested =>
        \E k \in DOMAIN scored :
            /\ scored[k].id = result.suggestion.template_id
            /\ LET tf == scored[k].template_fields
                   fm == result.suggestion.field_matches
               IN  /\ \A f \in AllNames :
                          Count(fm, LAMBDA m : m.templateField = f) <= Count(tf, LAMBDA g : g = f)
                   /\ \A f \in Range(tf) \cap Observed :
                          Count(fm, LAMBDA m : m.templateField = f /\ m.matchType = "exact")
                              = Count(tf, LAMBDA g : g = f)
                   /\ \A m \in Range(fm) :
                          \/ /\ m.matchType = "exact"
                             /\ m.confidence = <<1, 1>>
                             /\ m.sampleField = m.templateField
                             /\ m.templateField \in Observed
                          \/ /\ m.matchType = "fuzzy"
                             /\ m.templateField \in Range(tf) \ Observed
                             /\ m.sampleField \in Observed
                             /\ m.confidence = SimilarityTable[m.templateField, m.sampleField]
                             /\ RGt(m.confidence, <<3, 5>>)
                   /\ \A f \in Range(tf) \ Observed :
                          (\A s \in Observed : ~RGt(SimilarityTable[f, s], <<3, 5>>))
                              => Count(fm, LAMBDA m : m.templateField = f) = 0

\* the returned template declares one field matched by similarity and one whose
\* best similarity is exactly 0.6, which has no entry
C9_Witness ==
    /\ Suggested
    /\ Len(result.suggestion.field_matches) = 1
    /\ result.suggestion.field_matches[1].matchType = "fuzzy"
    /\ \E k \in DOMAIN scored :
          /\ scored[k].id = result.suggestion.template_id
          /\ Len(scored[k].template_fields) = 2
          /\ \E f \in Range(scored[k].template_fields) :
                /\ f # result.suggestion.field_matches[1].templateField
                /\ \E s \in Observed : SimilarityTable[f, s] = <<3, 5>>

\* the first 10 records of the batch (all of them when there are fewer)
FirstTen == SubSeq(records, 1, IF Len(records) < 10 THEN Len(records) ELSE 10)

\* C10: the observed field names are those of the first 10 records only: the call
\* returns what it returns on the first 10 records of the batch.
C10_FirstTenRecordsOnly ==
    Returned =>
        \E ord \in OrdersOf(SampleFields(FirstTen)) :
            result = SuggestOutcome(FirstTen, templates, ord)

\* a template whose mappings definition is malformed or cannot be decoded
Malformed(t) ==
    \/ t.mappings.tag = "str_invalid"
    \/ /\ t.mappings.tag \in {"list", "str_list"}
       /\ \E i \in DOMAIN t.mappings.items : t.mappings.items[i].kind = "scalar"

RECURSIVE WithoutMalformed(_)
WithoutMalformed(tmpls) ==
    IF tmpls = <<>> THEN <<>>
    ELSE (IF Malformed(Head(tmpls)) THEN <<>> ELSE <<Head(tmpls)>>)
         \o WithoutMalformed(Tail(tmpls))

\* C11: a template whose mappings definition is malformed or undecodable is
\* skipped and the others are still scored: the call does not raise, and on a
\* non-empty list it returns what it returns on the list without the malformed
\* templates.
C11_MalformedTemplatesSkipped ==
    (pc = "done" /\ ~EarlyReturn(records, templates)) =>
        /\ ~result.raised
        /\ LET rest == WithoutMalformed(templates)
           IN  result = [raised |-> FALSE,
                         suggestion |-> ScoreLoop(rest, 1, Observed, order, LoopStart).best_template,
                         confidence |-> ScoreLoop(rest, 1, Observed, order, LoopStart).best_score]

\* the template with its field_mappings value, if it has one, under the key mappings
UnderMappings(t) ==
    IF t.field_mappings # Absent
    THEN [t EXCEPT !.mappings = t.field_mappings, !.field_mappings = Absent]
    ELSE t

\* C12: a template that carries its pairs under field_mappings is decoded and
\* scored as the template carrying the same pairs under mappings.
C12_FieldMappingsScoredAsMappings ==
    pc = "done" =>
        result = SuggestOutcome(records, [i \in DOMAIN templates |-> UnderMappings(templates[i])],
                                order)

\* the template with one more declared source field
WithField(t, f) == [t EXCEPT !.mappings.items = Append(@, Pair(f))]

\* x >= y
RGe(x, y) == ~RGt(y, x)

\* C13: appending to a scored template one more declared source field that is
\* exactly present among the observed fields never decreases its combined score,
\* the batch and the iteration order being the same.
C13_AppendingExactFieldMonotone ==
    pc = "done" =>
        \A k \in DOMAIN scored : \A f \in Observed \ {EmptyName} :
            RGe(ScoreTemplate(WithField(templates[scored[k].pos], f), scored[k].pos,
                              Observed, order).combined_score,
                scored[k].combined_score)

\* a template with a declared field that is not observed is scored, and appending
\* an observed field raises its combined score
C13_Witness ==
    /\ pc = "done"
    /\ \E k \in DOMAIN scored : \E f \in Observed \ {EmptyName} :
          /\ NonExactFields(scored[k].template_fields, Observed) # <<>>
          /\ RGt(ScoreTemplate(WithField(templates[scored[k].pos], f), scored[k].pos,
                               Observed, order).combined_score,
                 scored[k].combined_score)

\* C14: a call yields the same output, the sampleField of every fuzzy entry
\* included, in whatever order the set of observed field names is iterated.
C14_OutputIndependentOfIterationOrder ==
    pc = "done" =>
        \A ord \in OrdersOf(Observed) : SuggestOutcome(records, templates, ord) = result

\* the field names that occur as a key of a record of the batch
ObservedKeys == {f \in ValidateNames : \E i \in DOMAIN sample_data : f \in DOMAIN sample_data[i]}

\* validate_schema has returned
Validated == pc = "done"

\* C15: for a non-empty batch validate_schema returns exactly one result for each
\* field name that is a key of some record, and no result for any other name.
C15_OneResultPerFieldName ==
    (Validated /\ sample_data # <<>>) =>
        /\ \A f \in ObservedKeys :
              Cardinality({k \in DOMAIN validation_results :
                              validation_results[k].field_name = f}) = 1
        /\ \A k \in DOMAIN validation_results : validation_results[k].field_name \in ObservedKeys

\* two records with different keys, three field names in all, have been validated
C15_Witness ==
    /\ Validated
    /\ Len(sample_data) = 2
    /\ DOMAIN sample_data[1] # DOMAIN sample_data[2]
    /\ Cardinality(ObservedKeys) = 3
    /\ Len(validation_results) = 3

\* the representative value of the field of a result
Representative(r) == SampleValue(FieldValues(sample_data, r.field_name))

\* the note of a result reports a failed attempt to read the value as the target type
NotesFailure(r, target) ==
    /\ r.notes # Null
    /\ r.notes.attempt # Null
    /\ r.notes.attempt.target = target
    /\ ~r.notes.attempt.converted

\* C16: a field expected to be a date whose detected type is str is valid exactly
\* when one of the eight formats parses its representative value; otherwise it is
\* invalid and its note describes the failed parse.
C16_UnparseableDateInvalid ==
    Validated =>
        \A k \in DOMAIN validation_results :
            LET r == validation_results[k]
            IN  (r.expected_type = "date" /\ r.actual_type = "str") =>
                    /\ r.valid <=> ParsingFormats(Representative(r)) # {}
                    /\ ParsingFormats(Representative(r)) = {} => NotesFailure(r, "date")

\* the values of the field of a result, in batch order, and those that are not None
ValuesOf(r) == FieldValues(sample_data, r.field_name)
NonNullValuesOf(r) == SelectSeq(ValuesOf(r), LAMBDA v : v.type # "null")

\* float(v) returns a number
ParsesAsFloat(v) == v.type \in {"int", "float", "bool"} \/ (v.type = "str" /\ IsFloatLiteral(v.text))

\* C17 as stated: a field expected to be a float whose detected type is str is valid
\* if and only if every sampled value of the field parses as a float.
C17_Original ==
    Validated =>
        \A k \in DOMAIN validation_results :
            LET r == validation_results[k]
            IN  (r.expected_type = "float" /\ r.actual_type = "str") =>
                    (r.valid <=> \A i \in DOMAIN NonNullValuesOf(r) : ParsesAsFloat(NonNullValuesOf(r)[i]))

\* C17: a field expected to be a float whose detected type is str is valid if and
\* only if its representative value, the first value of the field that is not None,
\* parses as a float; no other value of the field is tried.
C17_ValidIffRepresentativeParses ==
    Validated =>
        \A k \in DOMAIN validation_results :
            LET r == validation_results[k]
            IN  (r.expected_type = "float" /\ r.actual_type = "str") =>
                    (r.valid <=> ParsesAsFloat(Head(NonNullValuesOf(r))))

\* a float field detected as str is valid although a later value does not parse
C17_Witness ==
    /\ Validated
    /\ \E k \in DOMAIN validation_results :
          LET r == validation_results[k]
          IN  /\ r.expected_type = "float" /\ r.actual_type = "str"
              /\ r.valid
              /\ \E i \in DOMAIN NonNullValuesOf(r) : ~ParsesAsFloat(NonNullValuesOf(r)[i])

\* the result of field f, when the field has one
ResultOf(f) ==
    validation_results[CHOOSE k \in DOMAIN validation_results : validation_results[k].field_name = f]

\* every value of field f in the batch is a string, and there is one
AllStrings(f) ==
    /\ FieldValues(sample_data, f) # <<>>
    /\ \A i \in DOMAIN FieldValues(sample_data, f) : FieldValues(sample_data, f)[i].type = "str"

\* C18: in a batch whose sku values are strings and whose price values are
\* numeric-looking strings, sku is valid by equality of the expected and the
\* detected type (str, no note) and price is valid through the conversion to
\* float, with a note that documents the successful conversion.
C18_SkuValidPriceCoerced ==
    (/\ Validated
     /\ AllStrings(<<"s","k","u">>)
     /\ AllStrings(<<"p","r","i","c","e">>)
     /\ \A i \in DOMAIN FieldValues(sample_data, <<"p","r","i","c","e">>) :
            IsFloatLiteral(FieldValues(sample_data, <<"p","r","i","c","e">>)[i].text)) =>
        /\ ResultOf(<<"s","k","u">>).expected_type = "str"
        /\ ResultOf(<<"s","k","u">>).actual_type = "str"
        /\ ResultOf(<<"s","k","u">>).valid
        /\ ResultOf(<<"s","k","u">>).notes = Null
        /\ ResultOf(<<"p","r","i","c","e">>).expected_type = "float"
        /\ ResultOf(<<"p","r","i","c","e">>).actual_type = "str"
        /\ ResultOf(<<"p","r","i","c","e">>).valid
        /\ ResultOf(<<"p","r","i","c","e">>).notes # Null
        /\ ResultOf(<<"p","r","i","c","e">>).notes.attempt # Null
        /\ ResultOf(<<"p","r","i","c","e">>).notes.attempt.target = "float"
        /\ ResultOf(<<"p","r","i","c","e">>).notes.attempt.converted

\* the batch of the one record {"sku": "A1", "price": "19.99"} has been validated
C18_Witness ==
    /\ Validated
    /\ Len(sample_data) = 1
    /\ DOMAIN sample_data[1] = {<<"s","k","u">>, <<"p","r","i","c","e">>}
    /\ sample_data[1][<<"s","k","u">>] = Value("str", <<"A","1">>)
    /\ sample_data[1][<<"p","r","i","c","e">>] = Value("str", <<"1","9",".","9","9">>)
    /\ Len(validation_results) = 2
    /\ ResultOf(<<"p","r","i","c","e">>).notes.attempt.result = <<"1","9",".","9","9">>

\* the first 5 values of the field of a result that are not None (all of them when
\* there are fewer)
FirstFive(r) ==
    SubSeq(NonNullValuesOf(r), 1, IF Len(NonNullValuesOf(r)) < 5 THEN Len(NonNullValuesOf(r)) ELSE 5)

\* a value conforms to a detected type: a number to its own type (an int also to
\* float); any value conforms to str, the loosest type
Conforms(v, type) ==
    \/ type = "str"
    \/ v.type = type
    \/ type = "float" /\ v.type = "int"

\* C19: the detected type of a field is one that each of its first 5 values that are
\* not None conforms to, and it is the type detected from those values alone: later
\* values do not influence it.
C19_AllOrNothingOverFirstFive ==
    Validated =>
        \A k \in DOMAIN validation_results :
            LET r == validation_results[k]
            IN  r.actual_type # "null" =>
                    /\ \A i \in DOMAIN FirstFive(r) : Conforms(FirstFive(r)[i], r.actual_type)
                    /\ r.actual_type = ActualType(FirstFive(r))

\* the connector's pull has returned success = true with a sample that holds records
PullGood == pull_result # Null /\ pull_result.success /\ SampleOf(pull_result) # <<>>

\* C20: validate_schema and suggest_mapping are called only after the pull returned
\* success with a non-empty sample; a run that returns after a failed pull or an
\* empty sample has called neither and its result carries no validation results
\* and no suggestion.
C20_ValidateAndSuggestOnlyAfterGoodPull ==
    /\ calls # <<>> => PullGood
    /\ (outcome.returned /\ ~PullGood) =>
          /\ calls = <<>>
          /\ outcome.schema_validation = Null
          /\ outcome.mapping_suggestion = Null

\* an onboarding run whose pull succeeded with records has called validate_schema,
\* then suggest_mapping, and has returned with validation results
C20_Witness ==
    /\ handler = "onboard_supplier"
    /\ outcome.returned
    /\ PullGood
    /\ calls = <<"validate_schema", "suggest_mapping">>
    /\ outcome.schema_validation # Null

\* C21: suggest_mapping is total: whatever the records and the templates, a call
\* returns a result and never raises.
C21_SuggestMappingNeverRaises ==
    pc = "done" => ~result.raised

\* the record satisfies every supplied predicate
Keeps(r, c) ==
    /\ c.category.given => (CategoryField \in DOMAIN r /\ r[CategoryField].text = c.category.value)
    /\ c.sku_prefix.given =>
           \E f \in IdentifierFields \cap DOMAIN r : StartsWith(r[f].text, c.sku_prefix.value)
    /\ \A i \in 1..Len(c.field_contains) :
           /\ c.field_contains[i][1] \in DOMAIN r
           /\ IsSubstring(Lower(c.field_contains[i][2]), Lower(r[c.field_contains[i][1]].text))
\* the positions of the batch whose records satisfy every supplied predicate
KeptPositions == {i \in 1..Len(sample_data) : Keeps(sample_data[i], criteria)}
\* the j-th of those positions, in input order
KeptPosition(j) == CHOOSE i \in KeptPositions : Cardinality({k \in KeptPositions : k <= i}) = j
Filtered == pc = "done" /\ criteria # Null

\* the output is the leading part of the kept records, in input order
FilteredAsSpecified ==
    /\ Len(filtered) = IF criteria.limit.given /\ criteria.limit.value < Cardinality(KeptPositions)
                       THEN criteria.limit.value
                       ELSE Cardinality(KeptPositions)
    /\ \A j \in 1..Len(filtered) : filtered[j] = sample_data[KeptPosition(j)]
\* C22: the record filter returns the first `limit` records, in input order, of the
\* records that satisfy every supplied predicate (all of them when no limit is given);
\* an absent criterion removes nothing; the input batch is left as it was.
C22_LimitAppliedLast ==
    [][pc = "ready" /\ criteria # Null => sample_data' = sample_data /\ FilteredAsSpecified']_vars
C22_Witness ==
    /\ Filtered
    /\ Len(sample_data) = 3
    /\ criteria.sku_prefix.given /\ criteria.limit = Given(1)
    /\ 1 \notin KeptPositions /\ {2, 3} \subseteq KeptPositions
    /\ filtered = <<sample_data[2]>>

\* the keyword groups of the type inference, in their order of precedence
KeywordGroups ==
    <<[terms |-> PriceTerms, type |-> "float"], [terms |-> QtyTerms, type |-> "int"],
      [terms |-> DateTerms, type |-> "date"], [terms |-> BoolTerms, type |-> "bool"]>>
\* the groups one of whose keywords occurs in the lower-cased name
MatchedGroups(name) ==
    {g \in DOMAIN KeywordGroups : \E term \in KeywordGroups[g].terms : IsSubstring(term, Lower(name))}
Earliest(groups) == CHOOSE g \in groups : \A h \in groups : g <= h
\* the type the precedence rule gives a name
TypeByPrecedence(name) ==
    IF MatchedGroups(name) # {} THEN KeywordGroups[Earliest(MatchedGroups(name))].type
    ELSE IF EndsWith(Lower(name), <<"i","d">>) /\ IsSubstring(<<"u","u","i","d">>, Lower(name)) THEN "uuid"
    ELSE "str"

\* C23: the expected type of a field is the type of the earliest keyword group that
\* its lower-cased name matches (price: float, quantity: int, date: date, boolean:
\* bool); with no keyword, uuid when the name ends in id and contains uuid, else str;
\* and it is the type inferred for the lower-cased name.
C23_ExpectedTypeByPrecedence ==
    Validated =>
        \A k \in DOMAIN validation_results :
            /\ validation_results[k].expected_type = TypeByPrecedence(validation_results[k].field_name)
            /\ validation_results[k].expected_type =
                   InferExpectedType(Lower(validation_results[k].field_name))
C23_Witness ==
    /\ Validated
    /\ \E k \in DOMAIN validation_results :
           /\ MatchedGroups(validation_results[k].field_name) = {1, 2}
           /\ validation_results[k].field_name # Lower(validation_results[k].field_name)
           /\ validation_results[k].expected_type = "float"

\* the supplier has a file_upload source and an uploaded file to read
UsableFileUpload == GetSupplierById(data_sources).file_upload # "none" /\ uploaded_file
\* the test-pull endpoint of api.py has chosen its data source
SourceChosen == handler = "api.test_pull" /\ pc # "select"

\* C24: when the test-pull endpoint of api.py has chosen its data source, a supplier
\* with a usable file_upload source has a connector, whatever other sources (an EDI
\* source among them) are configured.
C24_UsableFileUploadGetsConnector ==
    (SourceChosen /\ UsableFileUpload) => connector # "none"

\* the test-pull endpoint of api.py has returned a TestPullResult
ApiReturned == handler = "api.test_pull" /\ outcome.returned

\* C25: when the test-pull endpoint of api.py returns a TestPullResult, the call has
\* written exactly one log row, and the row's success flag is the result's.
C25_OneLogRowPerReturnedResult ==
    ApiReturned =>
        /\ Len(test_pull_log) = 1
        /\ test_pull_log[1].success = outcome.success
\* a pull that succeeded is returned and logged as a success
C25_Witness ==
    /\ ApiReturned
    /\ outcome.success
    /\ test_pull_log = <<[success |-> TRUE]>>
\* the except clause took over after log_test_pull raised for a successful pull
C25_WitnessError ==
    /\ ApiReturned
    /\ pull_result # Null /\ pull_result.success
    /\ outcome.error = "exception"
    /\ test_pull_log = <<[success |-> FALSE]>>

\* C26: onboard_supplier writes a log row only in its last step, after steps 1 to 4,
\* and at most one; a run that returns earlier writes none.
C26_OnboardingLogsOnceAtTheEnd ==
    [][handler = "onboard_supplier" =>
          /\ test_pull_log' # test_pull_log => pc = "log" /\ test_pull_log = <<>>
          /\ Len(test_pull_log') <= 1
          /\ (pc' = "returned" /\ pc \notin {"log", "returned"}) => test_pull_log' = <<>>]_vars
\* a run that went through all steps has logged one row
C26_Witness ==
    /\ handler = "onboard_supplier"
    /\ outcome.returned
    /\ progress.steps_completed = total_steps
    /\ Len(test_pull_log) = 1

\* onboard_supplier has returned its OnboardingResult
OnboardingReturned == handler = "onboard_supplier" /\ outcome.returned

\* C27: in a returned OnboardingResult steps_completed is between 0 and 4, the status
\* is success exactly at 4, failed exactly at 0 and partial_success otherwise, and
\* a success has a supplier id and a successful test pull.
C27_StatusFollowsSteps ==
    OnboardingReturned =>
        /\ progress.steps_completed \in 0..total_steps
        /\ total_steps = 4
        /\ Status(progress) = "success" <=> progress.steps_completed = 4
        /\ Status(progress) = "failed" <=> progress.steps_completed = 0
        /\ Status(progress) \in {"success", "failed", "partial_success"}
        /\ Status(progress) = "success" => progress.supplier_id # "none" /\ outcome.success
C27_Witness ==
    /\ OnboardingReturned
    /\ Status(progress) = "success"
    /\ outcome.success
\* a run whose test pull was given up still counts the skipped validation step
C27_WitnessPartial ==
    /\ OnboardingReturned
    /\ Status(progress) = "partial_success"
    /\ progress.steps_completed = 3
    /\ ~outcome.success

\* C28: a step of onboard_supplier changes the supplier's mapping_template_id only
\* when suggest_mapping has returned a suggestion with confidence above 0.7: the
\* step then ends with that suggestion and confidence in the result.
C28_TemplateAssignedOnlyAboveThreshold ==
    [][(handler = "onboard_supplier" /\ mapping_template_id' # mapping_template_id) =>
          /\ pc = "suggest"
          /\ outcome'.mapping_suggestion # Null
          /\ RGt(outcome'.mapping_confidence, GoodConfidence)]_vars

\* C29: an upload sets data_sources.file_upload to the submitted configuration and
\* leaves the other entries of data_sources as they were; a rejected upload changes
\* nothing.
C29_UploadKeepsOtherSources ==
    [][pc = "upload" =>
          /\ \A k \in SourceKinds \ {"file_upload"} :
                 data_sources'[k] = GetSupplierById(data_sources)[k]
          /\ mapping_template_id' = mapping_template_id
          /\ data_sources'.file_upload \in {data_sources.file_upload, "file_config"}]_vars

\* some scored template has a combined score above 0
SomeScoreAboveZero == \E k \in DOMAIN scored : RGt(scored[k].combined_score, Zero)

\* C30: a call that returns gives a null suggestion exactly when its confidence is
\* 0.0, and exactly when no scored template has a combined score above 0; the
\* confidence returned with a suggestion is the suggestion's combined_score.
C30_NullIffZeroConfidence ==
    Returned =>
        /\ result.suggestion = Null <=> REq(result.confidence, Zero)
        /\ result.suggestion = Null <=> ~SomeScoreAboveZero
        /\ result.suggestion # Null => result.confidence = result.suggestion.combined_score
\* two templates are scored, both at 0, and the call returns null
C30_Witness ==
    /\ Returned
    /\ Len(scored) = 2
    /\ ~SomeScoreAboveZero
    /\ result.suggestion = Null
\* a suggestion is returned with its combined_score as confidence
C30_WitnessSuggested ==
    /\ Suggested
    /\ Len(scored) = 2
    /\ RGt(result.confidence, Zero)
    /\ result.confidence = result.suggestion.combined_score

=============================================================================
